---- MODULE Spec2Model ----
(***************************************************************************)
(* AI Travel Planner: the Streamlit script (app.py) and the Gemini client  *)
(* (ai_planner.py) as a state machine.  One step of the machine is one run *)
(* of the script from top to bottom: with the generate button pressed (the *)
(* handler of app.py:91-116 followed by the render of app.py:122-183) or   *)
(* without it (the render alone).  The generative backend is opaque: each  *)
(* request draws its outcome from BackendOutcomes.                         *)
(***************************************************************************)
EXTENDS Integers, Sequences, FiniteSets, TLC

\* Longest itinerary (number of DailyPlans) the backend returns in the model.
MaxDays == 2

(***************************************************************************)
(* Python values.  None and str are tagged records, so that a slot holding *)
(* either can be compared with both.                                       *)
(***************************************************************************)
None == [type |-> "NoneType"]

Str(s) == [type |-> "str", s |-> s]

Float(n) == [type |-> "float", v |-> n]

\* bool(v) for the values the script tests: None, "" are false.
Truthy(v) == v # None /\ v # Str("")

(***************************************************************************)
(* The palette of app.py:150, in order.                                    *)
(***************************************************************************)
colors ==
  << "red", "blue", "green", "purple", "orange", "darkred", "lightred",
     "beige", "darkblue", "darkgreen", "cadetblue", "darkpurple", "white",
     "pink", "lightblue", "lightgreen", "gray", "black", "lightgray" >>

(***************************************************************************)
(* Schema Definitions (ai_planner.py:7-24) as conformance predicates on a  *)
(* decoded JSON document.                                                  *)
(***************************************************************************)
ActivityFields ==
  {"name", "time", "description", "cost_estimate", "latitude", "longitude"}

Activity(a) ==
  /\ DOMAIN a = ActivityFields
  /\ a.latitude.type = "float"
  /\ a.longitude.type = "float"

DailyPlan(d) ==
  /\ DOMAIN d = {"day", "theme", "activities"}
  /\ d.day \in Int
  /\ \A i \in 1..Len(d.activities) : Activity(d.activities[i])

TripItinerary(t) ==
  /\ t # None
  /\ DOMAIN t = {"destination", "total_estimated_cost", "budget_tips", "itinerary"}
  /\ \A i \in 1..Len(t.itinerary) : DailyPlan(t.itinerary[i])

(***************************************************************************)
(* Documents the backend may return.                                       *)
(***************************************************************************)
Louvre ==
  [name |-> "Louvre", time |-> "Morning 09:00 AM", description |-> "museum",
   cost_estimate |-> "Free", latitude |-> Float(48), longitude |-> Float(2)]

Colosseum ==
  [name |-> "Colosseum", time |-> "Afternoon 02:00 PM", description |-> "arena",
   cost_estimate |-> "INR 1500", latitude |-> Float(41), longitude |-> Float(12)]

ActivityLists == { <<>>, <<Colosseum, Louvre>> }

\* The schema does not constrain day numbers; 17 and 20 reach past 16 and 19.
DayNumbers == {1, 17, 20}

Plans == [day : DayNumbers, theme : {"Highlights"}, activities : ActivityLists]

PlanSeqs == UNION { [1..n -> Plans] : n \in 0..MaxDays }

Document(plans) ==
  [destination |-> "Paris, France", total_estimated_cost |-> "INR 9000",
   budget_tips |-> <<"Carry a student ID">>, itinerary |-> plans]

ConformingDocuments == { Document(p) : p \in PlanSeqs }

\* Valid JSON that does not conform to TripItinerary.
MissingBudgetTips ==
  [destination |-> "Paris, France", total_estimated_cost |-> "INR 9000",
   itinerary |-> << [day |-> 1, theme |-> "Highlights", activities |-> <<Louvre>>] >>]

LatitudeString ==
  Document(<< [day |-> 1, theme |-> "Highlights",
               activities |-> << [Louvre EXCEPT !.latitude = Str("48.86")] >>] >>)

InvalidActivity ==
  Document(<< [day |-> 1, theme |-> "Highlights",
               activities |-> << Louvre,
                                 [name |-> "Colosseum", time |-> "Afternoon 02:00 PM",
                                  description |-> "arena", cost_estimate |-> "INR 1500",
                                  latitude |-> Float(41)] >>] >>)

JsonNull == None

NonConformingDocuments == {MissingBudgetTips, LatitudeString, InvalidActivity, JsonNull}

(***************************************************************************)
(* response.text: either the encoding of a JSON document or other text.    *)
(***************************************************************************)
JsonText(doc) == [raw |-> "json", doc |-> doc]

NotJsonText == [raw |-> "not json"]

ResponseTexts ==
  {NotJsonText} \cup { JsonText(d) : d \in ConformingDocuments \cup NonConformingDocuments }

(***************************************************************************)
(* Exceptions: a class and the text str(e) gives.                          *)
(***************************************************************************)
Exc(class, msg) == [class |-> class, msg |-> msg]

\* The base classes of each exception class that the model raises.
Bases(class) ==
  CASE class = "InvalidArgument"    -> {"InvalidArgument", "GoogleAPICallError", "Exception"}
    [] class = "PermissionDenied"   -> {"PermissionDenied", "GoogleAPICallError", "Exception"}
    [] class = "ServiceUnavailable" -> {"ServiceUnavailable", "GoogleAPICallError", "Exception"}
    [] class = "JSONDecodeError"    -> {"JSONDecodeError", "ValueError", "Exception"}
    [] class = "ValueError"         -> {"ValueError", "Exception"}
    [] class = "TimeoutError"       -> {"TimeoutError", "OSError", "Exception"}
    [] OTHER                        -> {class, "Exception"}

isinstance(e, class) == class \in Bases(e.class)

(***************************************************************************)
(* What the backend does with the one request: generate_content raises     *)
(* (cause is why, which the code cannot see), or it returns a response     *)
(* whose .text raises because the prompt was blocked, or a response with a *)
(* text.                                                                   *)
(***************************************************************************)
BackendRaises(cause, e) == [kind |-> "raises", cause |-> cause, exc |-> e]

BackendBlocked == [kind |-> "blocked", cause |-> "content_policy"]

BackendResponds(text) == [kind |-> "text", cause |-> "none", text |-> text]

NoBackend == [kind |-> "none", cause |-> "none"]

FailingOutcomes ==
  { BackendRaises("credential", Exc("InvalidArgument", "400 API key not valid")),
    BackendRaises("credential", Exc("PermissionDenied", "403 API key was reported as leaked")),
    BackendRaises("bad_request", Exc("InvalidArgument", "400 Unsupported response schema")),
    BackendRaises("network", Exc("ServiceUnavailable", "503 failed to connect")),
    BackendRaises("unexpected", Exc("TimeoutError", "")),
    BackendBlocked }

BackendOutcomes == FailingOutcomes \cup { BackendResponds(t) : t \in ResponseTexts }

(***************************************************************************)
(* ai_planner.py                                                          *)
(***************************************************************************)
\* The outcome of running a piece of code: it returns a value or raises.
Returns(value) == [raised |-> FALSE, value |-> value]

Raises(e) == [raised |-> TRUE, exc |-> e]

\* json.loads: the document of a JSON text, JSONDecodeError for any other text.
json_loads(text) ==
  IF text.raw = "json"
  THEN Returns(text.doc)
  ELSE Raises(Exc("JSONDecodeError", "Expecting value: line 1 column 1 (char 0)"))

\* response.text: ValueError when the response carries no candidate text.
response_text(backend) ==
  IF backend.kind = "blocked"
  THEN Raises(Exc("ValueError", "response.text requires a valid Part; the prompt was blocked"))
  ELSE Returns(backend.text)

\* The one outbound request of a call: what model.generate_content is sent.
Request(api_key, destination) == [credential |-> api_key, destination |-> destination]

InvalidKeyMessage == Str("Invalid API Key provided. Please check your Gemini API key.")

\* The suite of the try statement, ai_planner.py:54-65.
TryBlock(backend) ==
  IF backend.kind = "raises"
  THEN Raises(backend.exc)
  ELSE LET text == response_text(backend) IN
       IF text.raised
       THEN text
       ELSE LET result_dict == json_loads(text.value) IN
            IF result_dict.raised
            THEN result_dict
            ELSE Returns([status |-> "success", data |-> result_dict.value])

\* Faulty variant: the except Exception clause is missing.
generate_itinerary_OnlyInvalidArgument(api_key, destination, backend) ==
  LET body == TryBlock(backend) IN
  [outbound |-> << Request(api_key, destination) >>,
   outcome |->
     IF ~body.raised THEN body
     ELSE IF isinstance(body.exc, "InvalidArgument")
          THEN Returns([status |-> "error", message |-> InvalidKeyMessage])
          ELSE body]

\* Faulty variant: a failed request is issued a second time.
generate_itinerary_Retry(api_key, destination, backend) ==
  LET body == TryBlock(backend) IN
  [outbound |-> IF body.raised
                THEN << Request(api_key, destination), Request(api_key, destination) >>
                ELSE << Request(api_key, destination) >>,
   outcome |->
     IF ~body.raised THEN body
     ELSE IF isinstance(body.exc, "InvalidArgument")
          THEN Returns([status |-> "error", message |-> InvalidKeyMessage])
          ELSE Returns([status |-> "error", message |-> Str(body.exc.msg)])]

\* generate_itinerary: the requests it sends and how it ends.  The statements
\* before the try (genai.configure, GenerativeModel, the prompt, lines 31-51)
\* send nothing and do not raise for the str arguments the script passes.  The
\* try suite makes the call's single request; the two except clauses follow in
\* order.
generate_itinerary(api_key, destination, backend) ==
  LET body == TryBlock(backend) IN
  [outbound |-> << Request(api_key, destination) >>,
   outcome |->
     IF ~body.raised THEN body
     ELSE IF isinstance(body.exc, "InvalidArgument")
          THEN Returns([status |-> "error", message |-> InvalidKeyMessage])
          ELSE IF isinstance(body.exc, "Exception")
               THEN Returns([status |-> "error", message |-> Str(body.exc.msg)])
               ELSE body]

(***************************************************************************)
(* app.py: the render (lines 122-183)                                      *)
(***************************************************************************)
\* Faulty variant: the palette index is not shifted to start at day 1.
day_color_OffByOne(day) == colors[(day % Len(colors)) + 1]

\* app.py:154 (Python sequences are 0-based, TLA+ sequences 1-based).
day_color(day) == colors[((day - 1) % Len(colors)) + 1]

\* app.py:141-144: every activity's coordinate pair, in itinerary order.
RECURSIVE all_coords(_)
all_coords(plans) ==
  IF plans = <<>> THEN <<>>
  ELSE [i \in 1..Len(Head(plans).activities) |->
          << Head(plans).activities[i].latitude, Head(plans).activities[i].longitude >>]
       \o all_coords(Tail(plans))

\* app.py:153-161: one marker per activity, coloured by its day.
RECURSIVE markers(_)
markers(plans) ==
  IF plans = <<>> THEN <<>>
  ELSE [i \in 1..Len(Head(plans).activities) |->
          [location |-> << Head(plans).activities[i].latitude,
                           Head(plans).activities[i].longitude >>,
           tooltip |-> [day |-> Head(plans).day, name |-> Head(plans).activities[i].name],
           popup |-> [name |-> Head(plans).activities[i].name, day |-> Head(plans).day,
                      time |-> Head(plans).activities[i].time,
                      cost_estimate |-> Head(plans).activities[i].cost_estimate],
           color |-> day_color(Head(plans).day)]]
       \o markers(Tail(plans))

\* Faulty variant: the map is centred on the last collected coordinate.
MapView_CenterLast(itinerary_data) ==
  LET coords == all_coords(itinerary_data.itinerary) IN
  IF coords # <<>>
  THEN [kind |-> "map", location |-> coords[Len(coords)],
        markers |-> markers(itinerary_data.itinerary), fit_bounds |-> coords]
  ELSE [kind |-> "info"]

\* app.py:140-167: the folium map, or the st.info shown in its place.
MapView(itinerary_data) ==
  LET coords == all_coords(itinerary_data.itinerary) IN
  IF coords # <<>>
  THEN [kind |-> "map", location |-> coords[1],
        markers |-> markers(itinerary_data.itinerary), fit_bounds |-> coords]
  ELSE [kind |-> "info"]

\* Whether every key the itinerary view subscripts is there (else KeyError).
KeysPresent(data) ==
  /\ {"destination", "total_estimated_cost", "budget_tips", "itinerary"} \subseteq DOMAIN data
  /\ \A i \in 1..Len(data.itinerary) :
       /\ {"day", "theme", "activities"} \subseteq DOMAIN data.itinerary[i]
       /\ \A j \in 1..Len(data.itinerary[i].activities) :
            ActivityFields \subseteq DOMAIN data.itinerary[i].activities[j]

\* app.py:122-183: what the page shows for a session state.
Render(state) ==
  IF Truthy(state.error_message)
  THEN [kind |-> "error",
        text |-> << "Failed to generate itinerary: ", state.error_message.s >>]
  ELSE IF Truthy(state.itinerary_data)
       THEN IF KeysPresent(state.itinerary_data)
            THEN [kind |-> "itinerary", map |-> MapView(state.itinerary_data)]
            ELSE [kind |-> "exception"]
       ELSE [kind |-> "empty"]

(***************************************************************************)
(* app.py: the session state and the generate button (lines 55-116)        *)
(***************************************************************************)
Placeholder == Str("your_api_key_here")

\* os.getenv("GEMINI_API_KEY"): unset, empty, the placeholder, or a key.
ApiKeys == {None, Str(""), Placeholder, Str("AIza-student-key")}

Destinations == {Str(""), Str("Paris, France")}

\* app.py:86-89.  stored_in is history: "this_run" when the itinerary held was
\* stored by the current script run, "earlier_run" when by an earlier one.
InitialState == [itinerary_data |-> None, error_message |-> None, stored_in |-> "none"]

\* The start of a script run: what the session holds now dates from earlier.
Age(state) ==
  [state EXCEPT !.stored_in = IF @ = "this_run" THEN "earlier_run" ELSE @]

\* Faulty variant: the reset on a new generation is missing.
ResetState_Skipped(state) == state

\* app.py:93-94.
ResetState(state) == [itinerary_data |-> None, error_message |-> None, stored_in |-> "none"]

\* Faulty variant: the placeholder value is not recognised.
NotConfigured_NoPlaceholder(key) == ~Truthy(key)

\* app.py:96.
NotConfigured(key) == ~Truthy(key) \/ key = Placeholder

\* Faulty variant: the else of app.py:114 is lost, the message is stored on every path.
StoreResult_NoElse(result) ==
  [itinerary_data |-> IF result.status = "success" THEN result.data ELSE None,
   error_message |-> IF "message" \in DOMAIN result
                     THEN result.message ELSE Str("An unknown error occurred."),
   stored_in |-> IF result.status = "success" /\ result.data # None
                 THEN "this_run" ELSE "none"]

\* app.py:111-116 (result is a non-empty dict, so it is true).
StoreResult(result) ==
  IF result.status = "success"
  THEN [itinerary_data |-> result.data, error_message |-> None,
        stored_in |-> IF result.data # None THEN "this_run" ELSE "none"]
  ELSE [itinerary_data |-> None,
        error_message |-> IF "message" \in DOMAIN result
                          THEN result.message ELSE Str("An unknown error occurred."),
        stored_in |-> "none"]

NoCall == [invoked |-> FALSE, outbound |-> <<>>]

Called(r) == [invoked |-> TRUE, outbound |-> r.outbound, outcome |-> r.outcome]

VARIABLES
  session_state,   \* st.session_state: itinerary_data, error_message
  generate_btn,    \* whether the last script run was a click of the button
  api_key,         \* the credential the last run read
  destination,     \* the destination the last run read
  backend,         \* what the backend did with the last run's request
  call,            \* the last run's call of generate_itinerary, if any
  view,            \* what the last run rendered
  had_itinerary    \* whether the session held an itinerary when the last run began

vars == << session_state, generate_btn, api_key, destination, backend, call, view,
           had_itinerary >>

\* The first run of the script, on page load.
Init ==
  /\ session_state = InitialState
  /\ generate_btn = FALSE
  /\ api_key \in ApiKeys
  /\ destination = Str("")
  /\ backend = NoBackend
  /\ call = NoCall
  /\ view = Render(InitialState)
  /\ had_itinerary = FALSE

\* A run without the button (another widget changed): the render alone.
Rerun ==
  \E key \in ApiKeys, dest \in Destinations :
    /\ generate_btn' = FALSE
    /\ api_key' = key
    /\ destination' = dest
    /\ had_itinerary' = (session_state.itinerary_data # None)
    /\ session_state' = Age(session_state)
    /\ backend' = NoBackend
    /\ call' = NoCall
    /\ view' = Render(session_state')

\* A click stopped by app.py:96-97: no credential.
ClickNotConfigured ==
  \E key \in ApiKeys, dest \in Destinations :
    /\ NotConfigured(key)
    /\ generate_btn' = TRUE
    /\ api_key' = key
    /\ destination' = dest
    /\ had_itinerary' = (session_state.itinerary_data # None)
    /\ session_state' = ResetState(Age(session_state))
    /\ backend' = NoBackend
    /\ call' = NoCall
    /\ view' = Render(session_state')

\* A click stopped by app.py:98-99: no destination.
ClickNoDestination ==
  \E key \in ApiKeys, dest \in Destinations :
    /\ ~NotConfigured(key)
    /\ ~Truthy(dest)
    /\ generate_btn' = TRUE
    /\ api_key' = key
    /\ destination' = dest
    /\ had_itinerary' = (session_state.itinerary_data # None)
    /\ session_state' = ResetState(Age(session_state))
    /\ backend' = NoBackend
    /\ call' = NoCall
    /\ view' = Render(session_state')

\* A click that reaches app.py:101-116.  An exception leaving generate_itinerary
\* ends the script run there: nothing is stored and the page shows the exception.
ClickGenerate ==
  \E key \in ApiKeys, dest \in Destinations, b \in BackendOutcomes :
    /\ ~NotConfigured(key)
    /\ Truthy(dest)
    /\ generate_btn' = TRUE
    /\ api_key' = key
    /\ destination' = dest
    /\ had_itinerary' = (session_state.itinerary_data # None)
    /\ backend' = b
    /\ LET r == generate_itinerary(key, dest, b) IN
       /\ call' = Called(r)
       /\ IF r.outcome.raised
          THEN /\ session_state' = ResetState(Age(session_state))
               /\ view' = [kind |-> "exception"]
          ELSE /\ session_state' = StoreResult(r.outcome.value)
               /\ view' = Render(session_state')

Next == Rerun \/ ClickNotConfigured \/ ClickNoDestination \/ ClickGenerate

Spec == Init /\ [][Next]_vars

(***************************************************************************)
(* Properties                                                              *)
(***************************************************************************)
\* How the last run's call ended, when there was one and it returned.
Returned == call.invoked /\ ~call.outcome.raised

ReturnedError == Returned /\ call.outcome.value.status # "success"

ReturnedSuccess == Returned /\ call.outcome.value.status = "success"

\* The backend interaction failed: the request raised, the response had no
\* text, or its text was not JSON.
BackendFailed ==
  \/ backend.kind \in {"raises", "blocked"}
  \/ backend.kind = "text" /\ backend.text = NotJsonText

\* C1: the session never holds both a non-null itinerary and a non-null error.
C1_NeverBoth ==
  ~(session_state.itinerary_data # None /\ session_state.error_message # None)

C1_Witness ==
  /\ generate_btn /\ had_itinerary /\ ReturnedError
  /\ session_state.error_message # None
  /\ session_state.itinerary_data = None

\* C2: once a click has been processed, no itinerary stored by an earlier run is
\* held, however the click ended; an itinerary held is the one this click's call
\* of generate_itinerary returned.
C2_EarlierItineraryReplaced ==
  generate_btn =>
    /\ session_state.stored_in # "earlier_run"
    /\ session_state.itinerary_data # None =>
         /\ ReturnedSuccess
         /\ session_state.itinerary_data = call.outcome.value.data
         /\ session_state.stored_in = "this_run"

C2_Witness ==
  /\ generate_btn /\ had_itinerary /\ ~call.invoked
  /\ session_state.itinerary_data = None

\* C3: a click with the credential absent, empty or the placeholder invokes
\* generate_itinerary not at all and sends no request, whatever the destination.
C3_NoRequestWhenNotConfigured ==
  (generate_btn /\ api_key \in {None, Str(""), Str("your_api_key_here")}) =>
    (~call.invoked /\ call.outbound = <<>>)

C3_Witness ==
  /\ generate_btn /\ api_key = Str("your_api_key_here")
  /\ destination = Str("Paris, France")
  /\ ~call.invoked /\ call.outbound = <<>>

\* C4: generate_itinerary never ends by an exception, and when the backend
\* interaction fails it returns an error result that carries a message.
C4_FailuresReturnedNotRaised ==
  call.invoked =>
    /\ ~call.outcome.raised
    /\ BackendFailed =>
         /\ call.outcome.value.status = "error"
         /\ call.outcome.value.message.type = "str"

C4_Witness ==
  /\ call.invoked /\ backend = BackendResponds(NotJsonText)
  /\ ReturnedError

\* C5: generate_itinerary returns success only for a document that conforms to
\* the TripItinerary schema.
C5_SuccessOnlyIfConforming ==
  ReturnedSuccess => TripItinerary(call.outcome.value.data)

\* C6: the credential-specific error is returned exactly when the backend
\* rejected the credential.
C6_AuthErrorIffCredentialRejected ==
  Returned =>
    ((/\ call.outcome.value.status = "error"
      /\ call.outcome.value.message = InvalidKeyMessage)
     <=> backend.cause = "credential")

\* C7: after a click whose call of generate_itinerary returned a non-success
\* result, the session holds an error and the page shows the failure message.
C7_ErrorAlwaysShown ==
  (generate_btn /\ ReturnedError) =>
    /\ session_state.error_message # None
    /\ view.kind = "error"

\* C8: each call of generate_itinerary sends exactly one request, also when the
\* request fails.
C8_ExactlyOneRequest ==
  call.invoked =>
    /\ Len(call.outbound) = 1
    /\ call.outbound[1] = [credential |-> api_key, destination |-> destination]

C8_Witness ==
  call.invoked /\ BackendFailed /\ ReturnedError /\ Len(call.outbound) = 1

\* The number of activities of an itinerary, over all its days.
RECURSIVE TotalActivities(_)
TotalActivities(plans) ==
  IF plans = <<>> THEN 0
  ELSE Len(Head(plans).activities) + TotalActivities(Tail(plans))

\* The first DailyPlan of the sequence that has an activity.
FirstPlanWithActivities(plans) ==
  plans[CHOOSE i \in 1..Len(plans) :
          /\ plans[i].activities # <<>>
          /\ \A j \in 1..(i - 1) : plans[j].activities = <<>>]

Coordinate(act) == << act.latitude, act.longitude >>

\* C9 as stated: with no activity the map view is empty, and otherwise its
\* focal point is the first activity of the first DailyPlan of the sequence.
C9_FocalPointFirstPlan ==
  view.kind = "itinerary" =>
    LET plans == session_state.itinerary_data.itinerary IN
    IF TotalActivities(plans) = 0
    THEN view.map.kind = "info"
    ELSE /\ view.map.kind = "map"
         /\ plans[1].activities # <<>>
         /\ view.map.location = Coordinate(plans[1].activities[1])

\* C9 as amended: with no activity the map view is empty, and otherwise its
\* focal point is the first activity of the first DailyPlan of the sequence
\* that has any activity (the first coordinate collected).
C9_FocalPointFirstActivity ==
  view.kind = "itinerary" =>
    LET plans == session_state.itinerary_data.itinerary IN
    IF TotalActivities(plans) = 0
    THEN view.map.kind = "info"
    ELSE /\ view.map.kind = "map"
         /\ view.map.location = Coordinate(FirstPlanWithActivities(plans).activities[1])

C9_Witness ==
  /\ view.kind = "itinerary"
  /\ Len(session_state.itinerary_data.itinerary) = 2
  /\ session_state.itinerary_data.itinerary[1].activities = <<>>
  /\ session_state.itinerary_data.itinerary[2].activities = << Colosseum, Louvre >>
  /\ view.map.kind = "map"
  /\ view.map.location = << Float(41), Float(12) >>

\* The number of entries of the palette of app.py:150.
PaletteSize == 19

\* The markers of the map the page shows, if it shows one.
ShownMarkers ==
  IF view.kind = "itinerary" /\ view.map.kind = "map"
  THEN { view.map.markers[i] : i \in 1..Len(view.map.markers) }
  ELSE {}

====
